---- MODULE Spec2Model ----
(***************************************************************************)
(* analwave: a single pass over the frames of a WAV file, dispatched to    *)
(* the underrun analyser (src/analysers/underruns.rs) and the silence      *)
(* analyser (src/analysers/silence.rs); the driver and the exit status are *)
(* those of src/main.rs.                                                   *)
(*                                                                         *)
(* Samples are abstracted to "exact zero" (0) and "non-zero" (1): the code *)
(* only tests `*sample == 0`.  The loudness meter (crate ebur128) is an    *)
(* external collaborator: each completed window draws the meter's outcome  *)
(* from the set `meter`.  Loudness values are integers (LUFS), with        *)
(* NEG_INFINITY below every finite value of the model.                     *)
(***************************************************************************)
EXTENDS Integers, Sequences, FiniteSets, TLC

\* ---------------------------------------------------------------- bounds
MaxFrames == 5
MaxSamples == 3

\* ------------------------------------------------------ program constants
ERR_CONTAINS_UNDERRUN == 1
ERR_CONTAINS_SILENCE == 2
NEG_INFINITY == -1000
None == -1
INITIAL_LUFS == 0
DEFAULT_LUFS == -70
DEFAULT_SILENCE_PERCENTAGE == 99

SampleValues == {0, 1}
LufsValues == {DEFAULT_LUFS - 1, DEFAULT_LUFS, DEFAULT_LUFS + 1, 1}

\* Outcomes of one window's measurement: add_frames_i32 fails or not, and
\* loudness_shortterm is Ok(value) or Err.  After reset() and a failed add the
\* meter holds no data, so its short-term reading is unavailable.
MeterOutcomes ==
    {[add_err |-> FALSE, st_ok |-> TRUE, st_value |-> v] : v \in LufsValues}
      \cup {[add_err |-> FALSE, st_ok |-> FALSE, st_value |-> 0],
            [add_err |-> TRUE, st_ok |-> FALSE, st_value |-> 0]}

VARIABLES
    args,            \* Cli: underrun, silence, samples, lufs, silence_percentage,
                     \*      json (whether an output path is given)
    wav,             \* n_channels, sample_rate, n_samples (total frame count),
                     \*      ok (whether Wav::from_path opened the input)
    meter,           \* the outcomes the loudness meter can produce in this run
    pc,              \* "main", "analysing", "done", "exit"
    frame_counter,   \* index of the next frame of the enumeration
    underruns,       \* UnderrunAnalyser: contains_underrun, states
    silence,         \* SilenceAnalyser: count, frame_buf_iter, state, segments
    return_code,     \* main.rs analyze: the accumulated status
    exit_code,       \* the process exit status
    underrun_result, \* value returned by UnderrunAnalyser::finish
    silence_result,  \* value returned by SilenceAnalyser::finish
    final_count,     \* the local `count` of SilenceAnalyser::finish (None: not computed)
    events,          \* the UNDERRUN lines printed, in order
    frames_seen,     \* the frames the underrun analyser has consumed
    windows,         \* the windows the silence analyser has evaluated
    report           \* the JSON file written: <<>> (none) or <<key -> value>>

vars == <<args, wav, meter, pc, frame_counter, underruns, silence, return_code,
          exit_code, underrun_result, silence_result, final_count, events,
          frames_seen, windows, report>>

\* ------------------------------------------------------------- helpers
\* mutant: `^` where the code has `|`
BitXor(a, b) ==
    (IF (a % 2) # (b % 2) THEN 1 ELSE 0)
      + 2 * (IF ((a \div 2) % 2) # ((b \div 2) % 2) THEN 1 ELSE 0)

\* `|` on the two low bits of a u8
BitOr(a, b) ==
    (IF a % 2 = 1 \/ b % 2 = 1 THEN 1 ELSE 0)
      + 2 * (IF (a \div 2) % 2 = 1 \/ (b \div 2) % 2 = 1 THEN 1 ELSE 0)

Channels(n) == 0 .. n - 1

\* =================================================== underrun analyser
NewDetectorState == [underrun_count |-> 0, underrun_prev_index |-> 0]

NewUnderrunAnalyser(n_channels) ==
    [contains_underrun |-> FALSE,
     states |-> [c \in Channels(n_channels) |-> NewDetectorState]]

\* if (frame_counter - state.underrun_prev_index) > 1 { state.underrun_count = 0 }
GapReset(st, fc) ==
    IF fc - st.underrun_prev_index > 1 THEN [st EXCEPT !.underrun_count = 0] ELSE st

\* mutant: the frame of the zero is not recorded
ZeroSampleStale(st, fc) ==
    [underrun_count |-> GapReset(st, fc).underrun_count + 1,
     underrun_prev_index |-> st.underrun_prev_index]

\* the `*sample == 0` branch
ZeroSample(st, fc) ==
    [underrun_count |-> GapReset(st, fc).underrun_count + 1,
     underrun_prev_index |-> fc]

\* mutant: `>` where the code has `>=`
RunReachedGt(st, samples) == st.underrun_count > samples

\* state.underrun_count >= self.samples
RunReached(st, samples) == st.underrun_count >= samples

\* mutant: the run length is not reset by a non-zero sample
NonZeroSampleKeep(st) == st

\* the non-zero branch: state.underrun_count = 0
NonZeroSample(st) == [st EXCEPT !.underrun_count = 0]

\* mutant: the start of the span is off by one
UnderrunEventInclusive(c, st, end_frame, by) ==
    [channel |-> c, count |-> st.underrun_count,
     start |-> end_frame - st.underrun_count + 1, end |-> end_frame, by |-> by]

\* one UNDERRUN line: channel, count, start and end frame (before formatting)
UnderrunEvent(c, st, end_frame, by) ==
    [channel |-> c, count |-> st.underrun_count,
     start |-> end_frame - st.underrun_count, end |-> end_frame, by |-> by]

RECURSIVE AnalyseEvents(_, _, _, _, _)
AnalyseEvents(states, samples, fc, frame, c) ==
    IF c \notin DOMAIN states THEN <<>>
    ELSE (IF frame[c] # 0 /\ RunReached(states[c], samples)
          THEN <<UnderrunEvent(c, states[c], fc, "analyse")>> ELSE <<>>)
         \o AnalyseEvents(states, samples, fc, frame, c + 1)

\* mutant: a frame on which the silence analyser evaluates a window is not
\* passed on to the underrun analyser
UnderrunAnalyseSkipping(self, samples, fc, frame) ==
    IF args.silence
         /\ silence.frame_buf_iter + wav.n_channels >= wav.sample_rate * wav.n_channels
    THEN self
    ELSE [contains_underrun |->
             self.contains_underrun
               \/ \E c \in DOMAIN self.states :
                     frame[c] # 0 /\ RunReached(self.states[c], samples),
          states |->
             [c \in DOMAIN self.states |->
                 IF frame[c] = 0 THEN ZeroSample(self.states[c], fc)
                 ELSE NonZeroSample(self.states[c])]]

UnderrunAnalyse(self, samples, fc, frame) ==
    [contains_underrun |->
        self.contains_underrun
          \/ \E c \in DOMAIN self.states :
                frame[c] # 0 /\ RunReached(self.states[c], samples),
     states |->
        [c \in DOMAIN self.states |->
            IF frame[c] = 0 THEN ZeroSample(self.states[c], fc)
            ELSE NonZeroSample(self.states[c])]]

RECURSIVE FinishEvents(_, _, _, _)
FinishEvents(states, samples, num_frames, c) ==
    IF c \notin DOMAIN states THEN <<>>
    ELSE (IF RunReached(states[c], samples)
          THEN <<UnderrunEvent(c, states[c], num_frames, "finish")>> ELSE <<>>)
         \o FinishEvents(states, samples, num_frames, c + 1)

UnderrunFinish(self, samples) ==
    IF self.contains_underrun
         \/ \E c \in DOMAIN self.states : RunReached(self.states[c], samples)
    THEN ERR_CONTAINS_UNDERRUN ELSE 0

\* ==================================================== silence analyser
NewSilenceState ==
    [previous_lufs |-> INITIAL_LUFS, silence_start_frame |-> 0, silence_end_frame |-> 0]

NewSilenceAnalyser ==
    [count |-> 0, frame_buf_iter |-> 0, state |-> NewSilenceState, segments |-> <<>>]

WindowSize(w) == w.sample_rate * w.n_channels

\* loudness_shortterm().unwrap_or(f64::NEG_INFINITY)
ShortTerm(out) == IF out.st_ok THEN out.st_value ELSE NEG_INFINITY

\* mutant: `<=` where the code has `<`
IsFallingEdgeLe(lufs, previous_lufs, threshold) ==
    lufs <= threshold /\ previous_lufs >= threshold

IsFallingEdge(lufs, previous_lufs, threshold) ==
    lufs < threshold /\ previous_lufs >= threshold

IsRisingEdge(lufs, previous_lufs, threshold) ==
    lufs >= threshold /\ previous_lufs < threshold

\* mutant: the end is written to the first segment
CloseFirst(segments, end_frame) ==
    IF segments = <<>> THEN segments
    ELSE [segments EXCEPT ![1].end = end_frame]

\* segments.last_mut().end = Some(end_frame), when there is a last segment
CloseLast(segments, end_frame) ==
    IF segments = <<>> THEN segments
    ELSE [segments EXCEPT ![Len(segments)].end = end_frame]

\* mutant: silence_start_frame is not set
FallingEdgeNoStart(self, fc) ==
    [self EXCEPT !.segments = Append(@, [start |-> fc, end |-> None])]

FallingEdge(self, fc) ==
    [self EXCEPT !.state.silence_start_frame = fc,
                 !.segments = Append(@, [start |-> fc, end |-> None])]

\* mutant: the operands of the subtraction are swapped
RisingEdgeSwapped(self, fc) ==
    [self EXCEPT !.state.silence_end_frame = fc,
                 !.count = @ + (self.state.silence_start_frame - fc),
                 !.segments = CloseLast(@, fc)]

\* mutant: the segment is closed at the frame after the window
RisingEdgeExclusive(self, fc) ==
    [self EXCEPT !.state.silence_end_frame = fc,
                 !.count = @ + (fc - self.state.silence_start_frame),
                 !.segments = CloseLast(@, fc + 1)]

RisingEdge(self, fc) ==
    [self EXCEPT !.state.silence_end_frame = fc,
                 !.count = @ + (fc - self.state.silence_start_frame),
                 !.segments = CloseLast(@, fc)]

\* mutant: previous_lufs is set on an edge only
WindowKeepPrevious(self, threshold, fc, out) ==
    LET lufs == ShortTerm(out)
        prev == self.state.previous_lufs
        s1 == IF IsFallingEdge(lufs, prev, threshold) THEN FallingEdge(self, fc) ELSE self
        s2 == IF IsRisingEdge(lufs, prev, threshold) THEN RisingEdge(s1, fc) ELSE s1
    IN  IF IsFallingEdge(lufs, prev, threshold) \/ IsRisingEdge(lufs, prev, threshold)
        THEN [s2 EXCEPT !.state.previous_lufs = lufs, !.frame_buf_iter = 0]
        ELSE [s2 EXCEPT !.frame_buf_iter = 0]

\* the body of `if self.frame_buf_iter >= self.window_size`, after the meter ran
Window(self, threshold, fc, out) ==
    LET lufs == ShortTerm(out)
        prev == self.state.previous_lufs
        s1 == IF IsFallingEdge(lufs, prev, threshold) THEN FallingEdge(self, fc) ELSE self
        s2 == IF IsRisingEdge(lufs, prev, threshold) THEN RisingEdge(s1, fc) ELSE s1
    IN  [s2 EXCEPT !.state.previous_lufs = lufs, !.frame_buf_iter = 0]

\* mutant: `>` where the code has `>=`
WindowFullGt(self, w) == self.frame_buf_iter + w.n_channels > WindowSize(w)

\* self.frame_buf_iter >= self.window_size, once the frame is in the buffer
WindowFull(self, w) == self.frame_buf_iter + w.n_channels >= WindowSize(w)

SilenceAnalyse(self, w, threshold, fc, out) ==
    IF WindowFull(self, w) THEN Window(self, threshold, fc, out)
    ELSE [self EXCEPT !.frame_buf_iter = @ + w.n_channels]

\* (count as f32 / self.num_frames as f32) * 100.0 >= self.percentage
\* 0/0 is NaN (never >=), c/0 with c > 0 is +inf.  For num_frames <= 12 and
\* cnt <= 2 * num_frames the f32 result agrees with the exact comparison.
ReachesPercentage(cnt, num_frames, percentage) ==
    IF num_frames = 0 THEN cnt > 0
    ELSE cnt * 100 >= percentage * num_frames

BelowAtFinish(self, threshold) == self.state.previous_lufs < threshold

\* mutant: the start of the open segment is not subtracted
FinishCountNoStart(self, num_frames) == self.count + num_frames

\* let count = self.count + end_frame - self.state.silence_start_frame
FinishCount(self, num_frames) ==
    self.count + num_frames - self.state.silence_start_frame

\* mutant: the open segment is left open
SilenceFinishStateNoClose(self, threshold, num_frames) == self

SilenceFinishState(self, threshold, num_frames) ==
    IF BelowAtFinish(self, threshold)
    THEN [self EXCEPT !.segments = CloseLast(@, num_frames)]
    ELSE self

SilenceFinish(self, threshold, num_frames, percentage) ==
    IF BelowAtFinish(self, threshold)
         /\ ReachesPercentage(FinishCount(self, num_frames), num_frames, percentage)
    THEN ERR_CONTAINS_SILENCE ELSE 0

\* ================================================================== json
\* An Option is a sequence of at most one element: <<>> is None, <<x>> is Some(x).
\* The fields in seconds (f32 quotients by the sample rate) are left out.
SilenceJsonAlways(self, num_frames, threshold) ==
    <<[key |-> "silence",
       value |->
         [results |->
            [i \in 1 .. Len(self.segments) |->
                LET seg == self.segments[i]
                    end_frame == IF seg.end = None THEN num_frames ELSE seg.end
                IN  [startSample |-> seg.start, endSample |-> end_frame,
                     durationSamples |-> end_frame - seg.start]],
          threshold |-> threshold]]>>

SilenceJson(self, num_frames, threshold) ==
    IF self.segments = <<>> THEN <<>>
    ELSE <<[key |-> "silence",
            value |->
              [results |->
                 [i \in 1 .. Len(self.segments) |->
                     LET seg == self.segments[i]
                         end_frame == IF seg.end = None THEN num_frames ELSE seg.end
                     IN  [startSample |-> seg.start, endSample |-> end_frame,
                          durationSamples |-> end_frame - seg.start]],
               threshold |-> threshold]]>>

\* UnderrunAnalyser does not override json(): the default of the trait
UnderrunJson(self) == <<>>

RECURSIVE Flatten(_)
Flatten(options) ==
    IF options = <<>> THEN <<>> ELSE Head(options) \o Flatten(Tail(options))

\* write_json: one key per analyser whose json() is Some; nothing is written
\* when the map is empty or when no path is given
WriteJson(path_given, fragments) ==
    LET present == Flatten(fragments)
        keys == {present[i].key : i \in 1 .. Len(present)}
        json_output ==
            [k \in keys |->
                present[CHOOSE i \in 1 .. Len(present) :
                            /\ present[i].key = k
                            /\ \A j \in i + 1 .. Len(present) : present[j].key # k].value]
    IN  IF present = <<>> THEN <<>>
        ELSE IF ~path_given THEN <<>>
        ELSE <<json_output>>

\* the json() of every active analyser, in the order of the analyser list
Fragments(a, w, sil, und) ==
    (IF a.silence THEN <<SilenceJson(sil, w.n_samples, a.lufs)>> ELSE <<>>)
      \o (IF a.underrun THEN <<UnderrunJson(und)>> ELSE <<>>)

\* the driver's call of write_json, once every analyser has finished
DriverReport(a, w, sil, und) == WriteJson(a.json, Fragments(a, w, sil, und))

\* ======================================================== main.rs driver
\* return_code |= ERR_CONTAINS_UNDERRUN inside the frame loop
MainAnalyseCode(rc, a, states, frame) ==
    IF a.underrun
         /\ \E c \in DOMAIN states :
               frame[c] # 0 /\ states[c].underrun_count >= a.samples
    THEN BitOr(rc, ERR_CONTAINS_UNDERRUN) ELSE rc

\* the two blocks after the frame loop
MainFinishCode(rc, a, states, sil, num_frames) ==
    LET rc1 == IF a.underrun
                    /\ \E c \in DOMAIN states : states[c].underrun_count >= a.samples
               THEN BitOr(rc, ERR_CONTAINS_UNDERRUN) ELSE rc
        silence_count ==
            sil.count + (num_frames - sil.state.silence_start_frame)
    IN  IF a.silence /\ sil.state.previous_lufs < a.lufs
             /\ ReachesPercentage(silence_count, num_frames, a.silence_percentage)
        THEN BitOr(rc1, ERR_CONTAINS_SILENCE) ELSE rc1

\* ================================================================ actions
InitWith(flags, channels, rates, lengths, mins, thresholds, percentages, meters, jsons, opens) ==
    /\ args \in {[underrun |-> f[1], silence |-> f[2], samples |-> m, lufs |-> t,
                  silence_percentage |-> p, json |-> j] :
                    f \in flags, m \in mins, t \in thresholds, p \in percentages,
                    j \in jsons}
    /\ wav \in {[n_channels |-> c, sample_rate |-> r, n_samples |-> n, ok |-> o] :
                    c \in channels, r \in rates, n \in lengths, o \in opens}
    /\ meter \in meters
    /\ pc = "main"
    /\ frame_counter = 0
    /\ underruns = NewUnderrunAnalyser(wav.n_channels)
    /\ silence = NewSilenceAnalyser
    /\ return_code = 0
    /\ exit_code = None
    /\ underrun_result = None
    /\ silence_result = None
    /\ final_count = None
    /\ events = <<>>
    /\ frames_seen = <<>>
    /\ windows = <<>>
    /\ report = <<>>

\* return ExitCode::from(1), for an input that cannot be opened
OpenFailedCode == 1

\* return ExitCode::from(1), for a configuration with no analyser
NoAnalyserCode == 1

\* main(): refuse an input that does not open and a configuration with no
\* analyser, else run analyze()
Main ==
    /\ pc = "main"
    /\ IF ~wav.ok
       THEN pc' = "exit" /\ exit_code' = OpenFailedCode
       ELSE IF ~args.underrun /\ ~args.silence
       THEN pc' = "exit" /\ exit_code' = NoAnalyserCode
       ELSE pc' = "analysing" /\ exit_code' = exit_code
    /\ UNCHANGED <<args, wav, meter, frame_counter, underruns, silence, return_code,
                   underrun_result, silence_result, final_count, events,
                   frames_seen, windows, report>>

\* one iteration of `for (frame_counter, frame) in frames.enumerate()`
Analyse(frame, out) ==
    /\ pc = "analysing"
    /\ frame_counter < wav.n_samples
    /\ silence' = IF args.silence
                  THEN SilenceAnalyse(silence, wav, args.lufs, frame_counter, out)
                  ELSE silence
    /\ windows' = IF args.silence /\ WindowFull(silence, wav)
                  THEN Append(windows, [frame |-> frame_counter,
                                        add_err |-> out.add_err,
                                        lufs |-> ShortTerm(out),
                                        previous |-> silence.state.previous_lufs])
                  ELSE windows
    /\ underruns' = IF args.underrun
                    THEN UnderrunAnalyse(underruns, args.samples, frame_counter, frame)
                    ELSE underruns
    /\ events' = IF args.underrun
                 THEN events \o AnalyseEvents(underruns.states, args.samples,
                                              frame_counter, frame, 0)
                 ELSE events
    /\ frames_seen' = IF args.underrun THEN Append(frames_seen, frame) ELSE frames_seen
    /\ return_code' = MainAnalyseCode(return_code, args, underruns.states, frame)
    /\ frame_counter' = frame_counter + 1
    /\ UNCHANGED <<args, wav, meter, pc, exit_code, underrun_result, silence_result,
                   final_count, report>>

\* end of stream: every active analyser's finish, and the exit status
Finish ==
    /\ pc = "analysing"
    /\ frame_counter = wav.n_samples
    /\ underrun_result' = IF args.underrun
                          THEN UnderrunFinish(underruns, args.samples) ELSE None
    /\ events' = IF args.underrun
                 THEN events \o FinishEvents(underruns.states, args.samples,
                                             wav.n_samples, 0)
                 ELSE events
    /\ silence' = IF args.silence
                  THEN SilenceFinishState(silence, args.lufs, wav.n_samples)
                  ELSE silence
    /\ silence_result' = IF args.silence
                         THEN SilenceFinish(silence, args.lufs, wav.n_samples,
                                            args.silence_percentage)
                         ELSE None
    /\ final_count' = IF args.silence /\ BelowAtFinish(silence, args.lufs)
                      THEN FinishCount(silence, wav.n_samples) ELSE None
    /\ return_code' = MainFinishCode(return_code, args, underruns.states, silence,
                                     wav.n_samples)
    /\ exit_code' = return_code'
    /\ report' = DriverReport(args, wav, silence', underruns)
    /\ pc' = "done"
    /\ UNCHANGED <<args, wav, meter, frame_counter, underruns, frames_seen, windows>>

Next ==
    \/ Main
    \/ \E frame \in [Channels(wav.n_channels) -> SampleValues], out \in meter :
          Analyse(frame, out)
    \/ Finish

\* ---------------------------------------------------------- specifications
BothFlags == {<<TRUE, FALSE>>, <<FALSE, TRUE>>, <<TRUE, TRUE>>, <<FALSE, FALSE>>}

\* the whole pipeline, any combination of analysers; the meter is two-valued
Init ==
    InitWith(BothFlags, {1, 2}, {1, 2}, 0 .. MaxFrames, 1 .. 2, {DEFAULT_LUFS},
             {50, DEFAULT_SILENCE_PERCENTAGE},
             {{o \in MeterOutcomes :
                  o.st_ok /\ o.st_value \in {DEFAULT_LUFS - 1, DEFAULT_LUFS + 1}}},
             {TRUE}, {TRUE, FALSE})

Spec == Init /\ [][Next]_vars

\* the underrun analyser alone
InitUnderrun ==
    InitWith({<<TRUE, FALSE>>}, {1, 2}, {1}, 0 .. MaxFrames, 1 .. MaxSamples,
             {DEFAULT_LUFS}, {DEFAULT_SILENCE_PERCENTAGE}, {MeterOutcomes},
             {TRUE}, {TRUE})

SpecUnderrun == InitUnderrun /\ [][Next]_vars

\* the silence analyser alone
InitSilence ==
    InitWith({<<FALSE, TRUE>>}, {1, 2}, {1, 2}, 0 .. MaxFrames, {16},
             {DEFAULT_LUFS, 1}, {50, DEFAULT_SILENCE_PERCENTAGE}, {MeterOutcomes},
             {TRUE}, {TRUE})

SpecSilence == InitSilence /\ [][Next]_vars

\* the report: any analysers, with and without an output path, a threshold
\* below and one above the initial previous_lufs, a two-valued meter
InitReport ==
    InitWith(BothFlags \ {<<FALSE, FALSE>>}, {1}, {1, 2}, 0 .. MaxFrames, {1, 2},
             {DEFAULT_LUFS, 1}, {50},
             {{o \in MeterOutcomes : o.st_ok /\ o.st_value \in {DEFAULT_LUFS - 1, 1}}},
             {TRUE, FALSE}, {TRUE})

SpecReport == InitReport /\ [][Next]_vars

\* ================================================================ claims
\* ------------------------------------------- the stream, as it was seen
FramesSeen == Len(frames_seen)

\* channel c carried an exact zero at frame index i (0-based)
ZeroAt(c, i) == frames_seen[i + 1][c] = 0

\* the maximal runs of zeros of channel c, as <<first frame, frame after last>>
MaximalRuns(c) ==
    {r \in (0 .. FramesSeen) \X (0 .. FramesSeen) :
        /\ r[1] < r[2]
        /\ \A i \in r[1] .. r[2] - 1 : ZeroAt(c, i)
        /\ r[1] = 0 \/ ~ZeroAt(c, r[1] - 1)
        /\ r[2] = FramesSeen \/ ~ZeroAt(c, r[2])}

\* the maximal runs of at least args.samples zeros
LongRuns(c) == {r \in MaximalRuns(c) : r[2] - r[1] >= args.samples}

\* the length of the run of zeros that ends the stream on channel c
TailRun(c) ==
    IF \E r \in MaximalRuns(c) : r[2] = FramesSeen
    THEN LET r == CHOOSE q \in MaximalRuns(c) : q[2] = FramesSeen IN r[2] - r[1]
    ELSE 0

EventsOf(c, by) == SelectSeq(events, LAMBDA e : e.channel = c /\ e.by = by)

Spans(evs) == {<<evs[i].start, evs[i].end>> : i \in 1 .. Len(evs)}

\* C2: the underrun analyser's finish returns the underrun bit if and only if
\* some channel holds a maximal run of at least args.samples zeros, ended by a
\* non-zero sample or by the end of the stream; a shorter run is never reported.
C2_UnderrunBitIffLongRun ==
    (pc = "done" /\ args.underrun) =>
        /\ underrun_result \in {0, ERR_CONTAINS_UNDERRUN}
        /\ underrun_result = ERR_CONTAINS_UNDERRUN
             <=> \E c \in Channels(wav.n_channels) : LongRuns(c) # {}
        /\ \A i \in 1 .. Len(events) : events[i].count >= args.samples

\* the bit is set by finish alone, for a run the end of the stream cut off; the
\* other channel ends in a run that is too short
C2_Witness ==
    /\ pc = "done" /\ args.underrun /\ args.samples = 2 /\ wav.n_channels = 2
    /\ underrun_result = ERR_CONTAINS_UNDERRUN
    /\ ~underruns.contains_underrun
    /\ TailRun(0) = 2 /\ TailRun(1) = 1

\* C3: per channel the events of analyse and finish are in one-to-one
\* correspondence with the maximal runs of at least args.samples zeros: a run
\* ended by a non-zero sample at frame f gives one event [f - n, f) from
\* analyse, as soon as frame f is consumed; a run open at the end of the stream
\* gives one event [N - n, N) from finish; there is no other event.
C3_EventsMatchRuns ==
    args.underrun =>
        \A c \in Channels(wav.n_channels) :
            LET byAnalyse == EventsOf(c, "analyse")
                byFinish == EventsOf(c, "finish")
                closed == {r \in LongRuns(c) : r[2] < FramesSeen}
                open == {r \in LongRuns(c) : r[2] = FramesSeen}
            IN  /\ Spans(byAnalyse) = closed
                /\ Len(byAnalyse) = Cardinality(closed)
                /\ \A i \in 1 .. Len(events) :
                      events[i].count = events[i].end - events[i].start
                /\ IF pc = "done"
                   THEN /\ FramesSeen = wav.n_samples
                        /\ Spans(byFinish) = open
                        /\ Len(byFinish) = Cardinality(open)
                   ELSE byFinish = <<>>

\* one channel has a run closed mid-stream and a later one closed by finish
C3_Witness ==
    /\ pc = "done" /\ args.underrun /\ args.samples = 2
    /\ \E c \in Channels(wav.n_channels) :
          /\ Len(EventsOf(c, "analyse")) = 1
          /\ Len(EventsOf(c, "finish")) = 1
          /\ EventsOf(c, "finish")[1].end = wav.n_samples

\* C4, as stated: a channel whose last args.samples - 1 samples are zero makes
\* finish emit exactly one event spanning them.
C4_Original ==
    (pc = "done" /\ args.underrun /\ args.samples >= 2) =>
        \A c \in Channels(wav.n_channels) :
            TailRun(c) = args.samples - 1 =>
                /\ Len(EventsOf(c, "finish")) = 1
                /\ Spans(EventsOf(c, "finish"))
                     = {<<wav.n_samples - TailRun(c), wav.n_samples>>}

\* C4, amended: a channel whose last args.samples samples are zero (after a
\* non-zero sample or the start of the stream) makes finish emit exactly one
\* event spanning them, ending at the total frame count; with only
\* args.samples - 1 trailing zeros finish emits no event for the channel.
C4_EndOfStreamClosure ==
    (pc = "done" /\ args.underrun) =>
        \A c \in Channels(wav.n_channels) :
            /\ TailRun(c) = args.samples =>
                  /\ Len(EventsOf(c, "finish")) = 1
                  /\ Spans(EventsOf(c, "finish"))
                       = {<<wav.n_samples - args.samples, wav.n_samples>>}
            /\ TailRun(c) = args.samples - 1 => EventsOf(c, "finish") = <<>>

\* a stream that ends in exactly args.samples zeros after a non-zero sample
C4_Witness ==
    /\ pc = "done" /\ args.underrun /\ args.samples = 3
    /\ TailRun(0) = 3 /\ wav.n_samples > 3
    /\ Len(EventsOf(0, "finish")) = 1

\* --------------------------------------------------------- the pipeline
UnderrunBit == IF args.underrun THEN underrun_result ELSE 0

SilenceBit == IF args.silence THEN silence_result ELSE 0

\* C1: with at least one analyser enabled, the status of the pipeline is the
\* OR of the underrun analyser's bit (1) and the silence analyser's bit (2); it
\* is 0 exactly when neither reports a defect, and the bits are independent.
C1_StatusIsOrOfBits ==
    pc = "done" =>
        /\ UnderrunBit \in {0, ERR_CONTAINS_UNDERRUN}
        /\ SilenceBit \in {0, ERR_CONTAINS_SILENCE}
        /\ return_code = UnderrunBit + SilenceBit
        /\ return_code = 0 <=> (UnderrunBit = 0 /\ SilenceBit = 0)
        /\ exit_code = return_code

\* both bits at once, the underrun bit having been set in the frame loop and
\* again after it
C1_Witness ==
    /\ pc = "done"
    /\ return_code = 3
    /\ underruns.contains_underrun
    /\ \E c \in Channels(wav.n_channels) : TailRun(c) >= args.samples

\* ------------------------------------------------------ silence analyser
\* the step evaluated a window
WindowStep == Len(windows') = Len(windows) + 1

LastWindow(ws) == ws[Len(ws)]

Loudness(ws) == [i \in 1 .. Len(ws) |-> ws[i].lufs]

\* C5: a completed window with loudness c, previous loudness p and threshold T
\* does exactly one of: falling edge (c < T, p >= T): start frame := frame
\* index, a new open segment is appended; rising edge (c >= T, p < T): end
\* frame := frame index, (end - start) is added to the total, the last segment
\* (when there is one) is closed; otherwise none of these change.
C5_EdgeStep ==
    WindowStep =>
        LET c == LastWindow(windows').lufs
            p == silence.state.previous_lufs
            T == args.lufs
            f == frame_counter
            st == silence.state
            st2 == silence'.state
        IN  /\ LastWindow(windows').frame = f
            /\ ~((c < T /\ p >= T) /\ (c >= T /\ p < T))
            /\ (c < T /\ p >= T) =>
                  /\ st2.silence_start_frame = f
                  /\ st2.silence_end_frame = st.silence_end_frame
                  /\ silence'.segments
                       = Append(silence.segments, [start |-> f, end |-> None])
                  /\ silence'.count = silence.count
            /\ (c >= T /\ p < T) =>
                  /\ st2.silence_end_frame = f
                  /\ st2.silence_start_frame = st.silence_start_frame
                  /\ silence'.count = silence.count + (f - st.silence_start_frame)
                  /\ Len(silence'.segments) = Len(silence.segments)
                  /\ \A i \in 1 .. Len(silence.segments) :
                        silence'.segments[i] =
                            IF i = Len(silence.segments)
                            THEN [start |-> silence.segments[i].start, end |-> f]
                            ELSE silence.segments[i]
            /\ (~(c < T /\ p >= T) /\ ~(c >= T /\ p < T)) =>
                  /\ st2.silence_start_frame = st.silence_start_frame
                  /\ st2.silence_end_frame = st.silence_end_frame
                  /\ silence'.segments = silence.segments
                  /\ silence'.count = silence.count

\* the comparison is strict: -71, -70, -69 with threshold -70 opens a segment at
\* the first window, closes it at the second and does nothing at the third
C5_Boundary ==
    (/\ args.silence /\ args.lufs = DEFAULT_LUFS /\ pc = "analysing"
     /\ Loudness(windows) = <<DEFAULT_LUFS - 1, DEFAULT_LUFS, DEFAULT_LUFS + 1>>)
        => /\ silence.segments
                = <<[start |-> windows[1].frame, end |-> windows[2].frame]>>
           /\ silence.count = windows[2].frame - windows[1].frame
           /\ silence.state.silence_start_frame = windows[1].frame
           /\ silence.state.silence_end_frame = windows[2].frame

C5_SilenceEdges == [][C5_EdgeStep]_vars /\ []C5_Boundary

C5_Witness ==
    /\ args.silence /\ args.lufs = DEFAULT_LUFS /\ pc = "analysing"
    /\ Loudness(windows) = <<DEFAULT_LUFS - 1, DEFAULT_LUFS, DEFAULT_LUFS + 1>>
    /\ Len(silence.segments) = 1

SilentWindows == {i \in 1 .. Len(windows) : windows[i].lufs < args.lufs}

LoudWindows == {i \in 1 .. Len(windows) : windows[i].lufs >= args.lufs}

\* the silent-sample total after finish: the running total, with the segment
\* that finish closed at the end of the stream
SilentSampleTotal == IF final_count # None THEN final_count ELSE silence.count

\* C6, as stated: a stream whose every evaluated window is below the threshold,
\* with percentage threshold 99, makes finish return the silence bit.
C6_AllSilentSetsBit ==
    (/\ pc = "done" /\ args.silence
     /\ args.silence_percentage = DEFAULT_SILENCE_PERCENTAGE
     /\ windows # <<>> /\ LoudWindows = {})
        => silence_result = ERR_CONTAINS_SILENCE

\* C7: a stream of whole windows, half of them below the threshold and half at
\* or above it, in any order, with percentage threshold 99, never makes finish
\* return the silence bit.
C7_HalfSilentClean ==
    (/\ pc = "done" /\ args.silence
     /\ args.silence_percentage = DEFAULT_SILENCE_PERCENTAGE
     /\ windows # <<>>
     /\ wav.n_samples = Len(windows) * wav.sample_rate
     /\ Cardinality(SilentWindows) = Cardinality(LoudWindows))
        => silence_result = 0

\* half silent, ending below the threshold, so that finish computes the ratio
C7_Witness ==
    /\ pc = "done" /\ args.silence
    /\ args.silence_percentage = DEFAULT_SILENCE_PERCENTAGE
    /\ Len(windows) = 4
    /\ wav.n_samples = Len(windows) * wav.sample_rate
    /\ Cardinality(SilentWindows) = Cardinality(LoudWindows)
    /\ final_count # None /\ final_count > 0
    /\ silence_result = 0

\* C8, as stated: finish returns the silence bit if and only if
\* silent_sample_total / total_frame_count x 100 >= the percentage threshold,
\* whether the stream ends below the threshold or at or above it.
C8_BitIffPercentage ==
    (pc = "done" /\ args.silence) =>
        (silence_result = ERR_CONTAINS_SILENCE
           <=> ReachesPercentage(SilentSampleTotal, wav.n_samples,
                                 args.silence_percentage))

\* C9: a finish below the threshold accounts as one more rising edge at frame
\* index total_frame_count would: the total is the running total plus
\* (total_frame_count - silence_start_frame) and the last segment ends at
\* total_frame_count.
C9_FinishStep ==
    (/\ pc = "analysing" /\ pc' = "done" /\ args.silence
     /\ silence.state.previous_lufs < args.lufs)
        => LET edge == RisingEdge(silence, wav.n_samples)
           IN  /\ final_count' = edge.count
               /\ final_count'
                    = silence.count
                        + (wav.n_samples - silence.state.silence_start_frame)
               /\ silence'.segments = edge.segments
               /\ silence.segments # <<>> =>
                     /\ LastWindow(silence'.segments).end = wav.n_samples
                     /\ Len(silence'.segments) = Len(silence.segments)

C9_FinishIsRisingEdge == [][C9_FinishStep]_vars

\* finish closed a segment at the end of the stream, after an earlier one was
\* closed by a rising edge
C9_Witness ==
    /\ pc = "done" /\ args.silence
    /\ Len(silence.segments) = 2
    /\ silence.segments[1].end # None
    /\ silence.segments[2].end = wav.n_samples
    /\ final_count = silence.count + (wav.n_samples - silence.segments[2].start)
    /\ silence.count > 0

\* C10, as stated: a window for which the meter reports an error fires no
\* edge, opens and closes no segment, leaves the total and previous_lufs alone.
C10_ErrorStep ==
    (WindowStep /\ LastWindow(windows').add_err) =>
        /\ silence'.state = silence.state
        /\ silence'.segments = silence.segments
        /\ silence'.count = silence.count

C10_ErrorWindowSkipped == [][C10_ErrorStep]_vars

\* ---------------------------------------------------------------- the report
\* C11, as stated: for each analyser, json() is Some exactly when the analyser
\* has findings to report: an underrun event for the underrun analyser, a
\* segment or the silence verdict for the silence analyser.
C11_JsonIffFindings ==
    pc = "done" =>
        /\ args.underrun => (UnderrunJson(underruns) # <<>> <=> events # <<>>)
        /\ args.silence =>
              (SilenceJson(silence, wav.n_samples, args.lufs) # <<>>
                 <=> (silence.segments # <<>> \/ silence_result = ERR_CONTAINS_SILENCE))

\* the keys write_json is to insert: one per analyser with segments to report
ExpectedKeys ==
    IF args.silence /\ silence.segments # <<>> THEN {"silence"} ELSE {}

\* C12: an analyser without findings contributes no key.  The json() of the
\* silence analyser is None when it has no segment and never carries an empty
\* list of results, the report holds exactly the keys of the analysers whose
\* json() is Some, and no report is written when there is no such analyser.
C12_NoFindingsNoKey ==
    pc = "done" =>
        /\ args.silence =>
              LET j == SilenceJson(silence, wav.n_samples, args.lufs)
              IN  /\ silence.segments = <<>> => j = <<>>
                  /\ j # <<>> => Len(j[1].value.results) > 0
        /\ ExpectedKeys = {} => report = <<>>
        /\ report # <<>> =>
              /\ args.json
              /\ DOMAIN report[1] = ExpectedKeys
              /\ \A k \in DOMAIN report[1] :
                    Len(report[1][k].results) = Len(silence.segments)
        /\ (args.json /\ ExpectedKeys # {}) => report # <<>>

\* the silence analyser evaluated windows and found no segment, an output path
\* was given, and no report was written
C12_Witness ==
    /\ pc = "done" /\ args.silence /\ args.json
    /\ Len(windows) >= 2
    /\ silence.segments = <<>>
    /\ report = <<>>

\* ------------------------------------------------- the segments and the total
RECURSIVE SumDurations(_)
SumDurations(segs) ==
    IF segs = <<>> THEN 0
    ELSE (Head(segs).end - Head(segs).start) + SumDurations(Tail(segs))

\* C13, as stated: after finish the silent-sample total is the sum of the
\* durations of the segments, which are all closed, pairwise disjoint and
\* within [0, total frame count]; the total never exceeds the frame count.
C13_TotalIsSumOfSegments ==
    (pc = "done" /\ args.silence) =>
        LET segs == silence.segments
        IN  /\ \A i \in 1 .. Len(segs) :
                  /\ segs[i].end # None
                  /\ 0 <= segs[i].start /\ segs[i].start <= segs[i].end
                  /\ segs[i].end <= wav.n_samples
            /\ \A i, j \in 1 .. Len(segs) : i < j => segs[i].end <= segs[j].start
            /\ SilentSampleTotal = SumDurations(segs)
            /\ SilentSampleTotal <= wav.n_samples

\* ------------------------------------------------------- the refused run
\* C14, as stated: when main refuses the run (no analyser enabled, or the
\* input does not open) no frame is analysed and the exit status is non-zero
\* and none of the statuses of a verdict: 1, 2, 3.
C14_RefusalStatusDistinct ==
    pc = "exit" =>
        /\ frame_counter = 0 /\ frames_seen = <<>> /\ windows = <<>>
        /\ exit_code # 0
        /\ exit_code \notin {ERR_CONTAINS_UNDERRUN, ERR_CONTAINS_SILENCE,
                             BitOr(ERR_CONTAINS_UNDERRUN, ERR_CONTAINS_SILENCE)}

\* ------------------------------------------------------ the run counter
\* channel c read zero, non-zero, zero on the last three frames
ZeroNonZeroZero(c) ==
    /\ FramesSeen >= 3
    /\ ZeroAt(c, FramesSeen - 3)
    /\ ~ZeroAt(c, FramesSeen - 2)
    /\ ZeroAt(c, FramesSeen - 1)

\* C15: after every analyse call each channel's underrun_count is the number
\* of consecutive zeros that end at the current frame, 0 after a non-zero
\* sample.  A zero after a non-zero sample starts a run of length 1: with a
\* minimum of 2, zero, non-zero, zero fires no event for these frames (an
\* event ends at the non-zero frame only for a longer run before it).
C15_CountIsTrailingRun ==
    (args.underrun /\ pc \in {"analysing", "done"}) =>
        \A c \in Channels(wav.n_channels) :
            /\ underruns.states[c].underrun_count = TailRun(c)
            /\ (FramesSeen > 0 /\ ~ZeroAt(c, FramesSeen - 1)) =>
                  underruns.states[c].underrun_count = 0
            /\ ZeroNonZeroZero(c) =>
                  /\ underruns.states[c].underrun_count = 1
                  /\ (args.samples >= 2 /\ pc = "analysing") =>
                        \A i \in 1 .. Len(events) :
                            events[i].channel = c =>
                              /\ events[i].end <= FramesSeen - 2
                              /\ (FramesSeen = 3 \/ ~ZeroAt(c, FramesSeen - 4)) =>
                                    events[i].end < FramesSeen - 2

\* zero, non-zero, zero with a minimum of 2: the count is 1 and no event fired
C15_Witness ==
    /\ pc = "analysing" /\ args.underrun /\ args.samples = 2
    /\ FramesSeen = 3
    /\ ZeroNonZeroZero(0)
    /\ underruns.states[0].underrun_count = 1
    /\ events = <<>>

\* ------------------------------------------------ silence start and end
\* a rising edge is in the log: a silence end has been recorded
RisingSeen ==
    \E i \in 1 .. Len(windows) :
        windows[i].lufs >= args.lufs /\ windows[i].previous < args.lufs

\* C16, as stated: once a silence end has been recorded,
\* silence_start_frame <= silence_end_frame, also while a later segment is open.
C16_Original ==
    (args.silence /\ RisingSeen) =>
        silence.state.silence_start_frame <= silence.state.silence_end_frame

\* C16, amended: once a silence end has been recorded, silence_start_frame <=
\* silence_end_frame holds exactly while the analyser is at or above the
\* threshold; while a later segment is open the start is after the end.
C16_StartEndOrder ==
    (args.silence /\ RisingSeen) =>
        /\ silence.state.previous_lufs >= args.lufs =>
              silence.state.silence_start_frame <= silence.state.silence_end_frame
        /\ silence.state.previous_lufs < args.lufs =>
              /\ silence.state.silence_start_frame > silence.state.silence_end_frame
              /\ silence.segments # <<>>
              /\ LastWindow(silence.segments).start = silence.state.silence_start_frame

\* a segment is open after an earlier silence was ended
C16_Witness ==
    /\ pc = "analysing" /\ args.silence /\ RisingSeen
    /\ silence.state.previous_lufs < args.lufs
    /\ Len(silence.segments) = 2
    /\ silence.segments[2].end = None
    /\ silence.state.silence_start_frame > silence.state.silence_end_frame

\* -------------------------------------------------------- the segment list
\* the list only grows by appending: an earlier segment is kept, the last one
\* keeps its start and, once closed, its end
C17_AppendStep ==
    (args.silence /\ args.lufs <= INITIAL_LUFS) =>
        LET old == silence.segments
            new == silence'.segments
        IN  /\ Len(new) \in {Len(old), Len(old) + 1}
            /\ \A i \in 1 .. Len(old) :
                  /\ new[i].start = old[i].start
                  /\ (i < Len(old) \/ old[i].end # None) => new[i] = old[i]

\* increasing starts, closed segments non-empty and before the next one, only
\* the last segment open
C17_Ordered ==
    LET segs == silence.segments
    IN  /\ \A i, j \in 1 .. Len(segs) : i < j => segs[i].start < segs[j].start
        /\ \A i \in 1 .. Len(segs) :
              /\ segs[i].end # None =>
                    /\ segs[i].start < segs[i].end
                    /\ i < Len(segs) => segs[i].end <= segs[i + 1].start
              /\ segs[i].end = None => i = Len(segs)

LastOpen == silence.segments # <<>> /\ LastWindow(silence.segments).end = None

Below == silence.state.previous_lufs < args.lufs

\* C17, as stated (threshold <= 0.0): the list only grows by appending, is
\* ordered, and its last segment is open if and only if the analyser is below
\* the threshold, in every reachable state.
C17_Original ==
    /\ [][C17_AppendStep]_vars
    /\ []((args.silence /\ args.lufs <= INITIAL_LUFS) =>
            (C17_Ordered /\ (LastOpen <=> Below)))

\* C17, amended (threshold <= 0.0): the list only grows by appending and is
\* ordered in every reachable state; until finish the last segment is open if
\* and only if the analyser is below the threshold, and after finish every
\* segment is closed, also when the analyser is still below the threshold.
C17_SegmentList ==
    /\ [][C17_AppendStep]_vars
    /\ []((args.silence /\ args.lufs <= INITIAL_LUFS) =>
            /\ C17_Ordered
            /\ pc # "done" => (LastOpen <=> Below)
            /\ pc = "done" => ~LastOpen)

\* two segments closed by rising edges and a third one open
C17_Witness ==
    /\ pc = "analysing" /\ args.silence /\ args.lufs <= INITIAL_LUFS
    /\ Len(silence.segments) = 3
    /\ silence.segments[1].end # None /\ silence.segments[2].end # None
    /\ LastOpen /\ Below

\* ------------------------------------------------------------- the windows
\* a frame was analysed
FrameStep == frame_counter' = frame_counter + 1

\* the frame changes no silence state but the buffer position
C18_TrailingStep ==
    (args.silence /\ FrameStep /\ ~WindowStep) =>
        /\ silence'.state = silence.state
        /\ silence'.count = silence.count
        /\ silence'.segments = silence.segments
        /\ silence'.frame_buf_iter = silence.frame_buf_iter + wav.n_channels

C18_Positions ==
    (args.silence /\ pc \in {"analysing", "done"}) =>
        /\ Len(windows) = frame_counter \div wav.sample_rate
        /\ \A i \in 1 .. Len(windows) :
              /\ windows[i].frame = i * wav.sample_rate - 1
              /\ (windows[i].frame + 1) % wav.sample_rate = 0
        /\ \A f \in 0 .. frame_counter - 1 :
              (f + 1) % wav.sample_rate = 0 =>
                  \E i \in 1 .. Len(windows) : windows[i].frame = f
        /\ silence.frame_buf_iter
              = (frame_counter % wav.sample_rate) * wav.n_channels
        /\ silence.frame_buf_iter % wav.n_channels = 0
        /\ 0 <= silence.frame_buf_iter /\ silence.frame_buf_iter < WindowSize(wav)
        /\ pc = "done" => Len(windows) = wav.n_samples \div wav.sample_rate

\* C18: a window is evaluated exactly on the frames f with (f + 1) mod
\* sample_rate = 0; between analyse calls the buffer position is a multiple of
\* the channel count in [0, window_size); N frames cause floor(N / sample_rate)
\* evaluations; a frame that completes no window changes no silence state.
C18_WindowCadence == [][C18_TrailingStep]_vars /\ []C18_Positions

\* five frames at sample rate 2: two windows and a trailing frame in the buffer
C18_Witness ==
    /\ pc = "done" /\ args.silence
    /\ wav.sample_rate = 2 /\ wav.n_samples = 5
    /\ Len(windows) = 2
    /\ silence.frame_buf_iter = wav.n_channels

\* C19: a completed window that is neither a falling nor a rising edge leaves
\* silence_start_frame, silence_end_frame, the total and the segments as they
\* were; every completed window, edge or not, sets previous_lufs to its
\* loudness.
C19_WindowStep ==
    WindowStep =>
        LET w == LastWindow(windows')
            falling == w.lufs < args.lufs /\ silence.state.previous_lufs >= args.lufs
            rising == w.lufs >= args.lufs /\ silence.state.previous_lufs < args.lufs
        IN  /\ silence'.state.previous_lufs = w.lufs
            /\ (~falling /\ ~rising) =>
                  /\ silence'.state.silence_start_frame
                        = silence.state.silence_start_frame
                  /\ silence'.state.silence_end_frame = silence.state.silence_end_frame
                  /\ silence'.count = silence.count
                  /\ silence'.segments = silence.segments

C19_PreviousFollows == [][C19_WindowStep]_vars

\* a window that was no edge changed previous_lufs: both readings are at or
\* above the threshold and differ
C19_Witness ==
    /\ args.silence /\ pc = "analysing"
    /\ Len(windows) >= 2
    /\ LastWindow(windows).previous >= args.lufs
    /\ LastWindow(windows).lufs >= args.lufs
    /\ LastWindow(windows).lufs # LastWindow(windows).previous
    /\ silence.state.previous_lufs = LastWindow(windows).lufs
    /\ silence.segments # <<>>

\* ------------------------------------------------------- non-interference
\* the frame of the last zero on channel c, 0 when there is none
LastZeroIndex(c) ==
    IF \E i \in 0 .. FramesSeen - 1 : ZeroAt(c, i)
    THEN CHOOSE i \in 0 .. FramesSeen - 1 :
             ZeroAt(c, i) /\ \A j \in i + 1 .. FramesSeen - 1 : ~ZeroAt(c, j)
    ELSE 0

\* the long runs that a non-zero sample has ended
ClosedLongRuns(c) == {r \in LongRuns(c) : r[2] < FramesSeen}

\* the underrun analyser's state, events and result are those the frames and
\* the minimum run length determine
UnderrunByFrames ==
    /\ FramesSeen = frame_counter
    /\ underruns.contains_underrun
          = (\E c \in Channels(wav.n_channels) : ClosedLongRuns(c) # {})
    /\ \A c \in Channels(wav.n_channels) :
          /\ underruns.states[c].underrun_count = TailRun(c)
          /\ underruns.states[c].underrun_prev_index = LastZeroIndex(c)
          /\ Spans(EventsOf(c, "analyse")) = ClosedLongRuns(c)
          /\ Len(EventsOf(c, "analyse")) = Cardinality(ClosedLongRuns(c))
          /\ pc = "analysing" => EventsOf(c, "finish") = <<>>
          /\ pc = "done" =>
                Spans(EventsOf(c, "finish")) = LongRuns(c) \ ClosedLongRuns(c)
    /\ pc = "done" =>
          underrun_result
            = IF \E c \in Channels(wav.n_channels) : LongRuns(c) # {}
              THEN ERR_CONTAINS_UNDERRUN ELSE 0

\* the silence analyser run alone on the first n windows of the log
RECURSIVE Replay(_)
Replay(n) ==
    IF n = 0 THEN NewSilenceAnalyser
    ELSE Window(Replay(n - 1), args.lufs, windows[n].frame,
                [add_err |-> windows[n].add_err, st_ok |-> TRUE,
                 st_value |-> windows[n].lufs])

ReplayNow ==
    [Replay(Len(windows)) EXCEPT
        !.frame_buf_iter = (frame_counter % wav.sample_rate) * wav.n_channels]

\* the silence analyser's state, segments and result are those the meter's
\* readings and the threshold determine
SilenceByWindows ==
    /\ Len(windows) = frame_counter \div wav.sample_rate
    /\ pc = "analysing" => silence = ReplayNow
    /\ pc = "done" =>
          /\ silence = SilenceFinishState(ReplayNow, args.lufs, wav.n_samples)
          /\ silence_result = SilenceFinish(ReplayNow, args.lufs, wav.n_samples,
                                            args.silence_percentage)

\* an analyser that is not active keeps its initial state, whatever the other
\* one does with the frame
C20_DisabledStep ==
    /\ ~args.silence => (silence' = silence /\ windows' = windows)
    /\ ~args.underrun => (underruns' = underruns /\ events' = events)

C20_Determined ==
    pc \in {"analysing", "done"} =>
        /\ args.underrun => UnderrunByFrames
        /\ args.silence => SilenceByWindows
        /\ ~args.underrun =>
              (underruns = NewUnderrunAnalyser(wav.n_channels) /\ events = <<>>)
        /\ ~args.silence => (silence = NewSilenceAnalyser /\ windows = <<>>)

\* C20: the analysers do not interfere.  Whether the other analyser is active
\* or not, the underrun analyser's state, events and result bit are the same
\* function of the frames, and the silence analyser's state, segments and
\* result bit the same function of the meter's readings; a frame changes
\* nothing of an analyser it is not dispatched to.
C20_NoInterference == [][C20_DisabledStep]_vars /\ []C20_Determined

\* both analysers ran on the same frames and both have findings
C20_Witness ==
    /\ pc = "done" /\ args.underrun /\ args.silence
    /\ Len(events) >= 2
    /\ Len(silence.segments) >= 2
    /\ underrun_result = ERR_CONTAINS_UNDERRUN
    /\ silence_result = ERR_CONTAINS_SILENCE

\* ------------------------------------------------- unsigned arithmetic, indices
\* the operands of the underrun analyser's subtractions and its channel index
UnderrunInRange ==
    /\ DOMAIN underruns.states = Channels(wav.n_channels)
    /\ \A i \in 1 .. Len(frames_seen) : DOMAIN frames_seen[i] = DOMAIN underruns.states
    /\ \A c \in DOMAIN underruns.states :
          /\ frame_counter - underruns.states[c].underrun_prev_index >= 0
          /\ frame_counter - underruns.states[c].underrun_count >= 0
          /\ wav.n_samples - underruns.states[c].underrun_count >= 0
    /\ \A i \in 1 .. Len(events) :
          /\ events[i].start >= 0
          /\ events[i].start = events[i].end - events[i].count

\* the operands of the silence analyser's subtractions and its buffer position
SilenceInRange ==
    /\ frame_counter - silence.state.silence_start_frame >= 0
    /\ silence.state.silence_end_frame - silence.state.silence_start_frame >= 0
          \/ silence.state.previous_lufs < args.lufs
    /\ silence.count >= 0
    /\ silence.count + wav.n_samples - silence.state.silence_start_frame >= 0
    /\ (pc = "done" /\ BelowAtFinish(silence, args.lufs)) => final_count >= 0
    /\ \A i \in 1 .. Len(silence.segments) :
          LET seg == silence.segments[i]
              end_frame == IF seg.end = None THEN wav.n_samples ELSE seg.end
          IN  end_frame - seg.start >= 0
    /\ 0 <= silence.frame_buf_iter
    /\ silence.frame_buf_iter + wav.n_channels - 1 < WindowSize(wav)
    /\ report # <<>> =>
          \A k \in DOMAIN report[1] :
              \A i \in 1 .. Len(report[1][k].results) :
                  report[1][k].results[i].durationSamples >= 0

\* C21: on a stream of N = total frame count frames with channel_count
\* samples each, no unsigned subtraction of either analyser underflows and no
\* index is out of range: the channel index is below the number of
\* per-channel states and every write to the window buffer is below
\* window_size.
C21_NoUnderflow ==
    pc \in {"analysing", "done"} =>
        /\ args.underrun => UnderrunInRange
        /\ args.silence => SilenceInRange

\* both analysers finished a two-channel stream with an underrun event that
\* starts after frame 0, a segment closed by a rising edge and one closed by
\* finish
C21_Witness ==
    /\ pc = "done" /\ args.underrun /\ args.silence
    /\ wav.n_channels = 2
    /\ \E i \in 1 .. Len(events) : events[i].start > 0
    /\ silence.count > 0
    /\ final_count > silence.count
    /\ Len(silence.segments) = 2

\* ------------------------------------------------- the length of a segment
\* the segments a rising edge has closed: finish closes at the frame count,
\* which is the frame of no window
ClosedMidStream ==
    {i \in 1 .. Len(silence.segments) :
        /\ silence.segments[i].end # None
        /\ silence.segments[i].end < wav.n_samples}

\* windows i .. j - 1 are the below-threshold windows of one silence: i is its
\* falling edge and j its rising edge
SilenceSpan(i, j) ==
    /\ i < j
    /\ windows[i].lufs < args.lufs /\ windows[i].previous >= args.lufs
    /\ \A m \in i .. j - 1 : windows[m].lufs < args.lufs
    /\ windows[j].lufs >= args.lufs

\* C22: a segment closed by a rising edge starts at the last frame of the
\* first below-threshold window, ends at the last frame of the first
\* following window at or above the threshold, and is k * sample_rate frames
\* long, k being the number of below-threshold windows in between.
C22_SegmentDuration ==
    args.silence =>
        \A n \in ClosedMidStream :
            \E i, j \in 1 .. Len(windows) :
                /\ SilenceSpan(i, j)
                /\ silence.segments[n].start = windows[i].frame
                /\ silence.segments[n].start = i * wav.sample_rate - 1
                /\ silence.segments[n].end = windows[j].frame
                /\ silence.segments[n].end = j * wav.sample_rate - 1
                /\ silence.segments[n].end - silence.segments[n].start
                      = (j - i) * wav.sample_rate

\* a segment of two below-threshold windows closed by a rising edge, and a
\* later one closed by finish
C22_Witness ==
    /\ args.silence /\ pc = "done"
    /\ wav.sample_rate = 1
    /\ Len(silence.segments) = 2
    /\ ClosedMidStream = {1}
    /\ silence.segments[1].end - silence.segments[1].start = 2 * wav.sample_rate

\* ------------------------------------------------------------ the gap reset
\* C23: with consecutive frame indices from 0 the gap reset never changes
\* anything: whenever frame_counter - underrun_prev_index > 1 the channel's
\* underrun_count is already 0, so every analyse call counts as it would
\* without the gap check.
C23_GapStep ==
    (args.underrun /\ FrameStep) =>
        \A c \in Channels(wav.n_channels) :
            LET st == underruns.states[c]
                sample == frames_seen'[Len(frames_seen')][c]
            IN  /\ frame_counter - st.underrun_prev_index > 1 => st.underrun_count = 0
                /\ GapReset(st, frame_counter) = st
                /\ sample = 0 =>
                      underruns'.states[c]
                        = [underrun_count |-> st.underrun_count + 1,
                           underrun_prev_index |-> frame_counter]

C23_GapResetRedundant == [][C23_GapStep]_vars

\* a zero arrived three frames after the previous zero of its channel
C23_Witness ==
    /\ pc = "analysing" /\ args.underrun
    /\ FramesSeen = 4
    /\ ZeroAt(0, 0) /\ ~ZeroAt(0, 1) /\ ~ZeroAt(0, 2) /\ ZeroAt(0, 3)
    /\ underruns.states[0] = [underrun_count |-> 1, underrun_prev_index |-> 3]

====
